---- MODULE Spec2Model ----
(***************************************************************************)
(* pydcm2niix/conversion.py: classification of DICOM headers as MT-on or   *)
(* MT-off, partition of a DICOM directory into two staging directories and *)
(* conversion of each with the external dcm2niix program.                  *)
(*                                                                         *)
(* Python strings are TLA+ strings.  A DICOM element is the tuple of its   *)
(* values: <<>> is an absent (or empty) element, <<v>> a single value and  *)
(* a longer tuple a multi-valued element.  A Python float is a fixed-point *)
(* number, counted in thousandths.  A DICOM directory holds files that     *)
(* dicom.read_file can read, each with a Manufacturer element.  dcm2niix   *)
(* is outside the program: a run of it ends with any of the outcomes of    *)
(* Outcomes.                                                               *)
(***************************************************************************)
EXTENDS Integers, Sequences, FiniteSets, TLC

\* Bound of the model: the largest number of files in a DICOM directory.
MaxFiles == 3

-----------------------------------------------------------------------------
(* Python string operations                                                *)

Chr(s, i) == SubSeq(s, i, i)

UpperCase == "ABCDEFGHIJKLMNOPQRSTUVWXYZ"

LowerCase == "abcdefghijklmnopqrstuvwxyz"

Digits == "0123456789"

\* the lower-case letter of each upper-case letter
LowerOf ==
    [c \in { Chr(UpperCase, i) : i \in 1..Len(UpperCase) } |->
        Chr(LowerCase, CHOOSE i \in 1..Len(UpperCase) : Chr(UpperCase, i) = c)]

\* str.lower() on one character
LowerChar(c) == IF c \in DOMAIN LowerOf THEN LowerOf[c] ELSE c

\* s.lower()
RECURSIVE lower(_)
lower(s) ==
    IF Len(s) = 0 THEN ""
    ELSE LowerChar(Chr(s, 1)) \o lower(SubSeq(s, 2, Len(s)))

\* sub in s, for two strings
Contains(sub, s) ==
    \E i \in 1..(Len(s) - Len(sub) + 1) : SubSeq(s, i, i + Len(sub) - 1) = sub

\* s.endswith(suffix)
endswith(s, suffix) ==
    /\ Len(s) >= Len(suffix)
    /\ SubSeq(s, Len(s) - Len(suffix) + 1, Len(s)) = suffix

\* token in value, for the value of a DICOM element: a plain string when the
\* element holds at most one value (substring test), a list otherwise
\* (membership test)
PyIn(token, value) ==
    IF Len(value) = 0 THEN FALSE
    ELSE IF Len(value) = 1 THEN Contains(token, value[1])
    ELSE \E i \in 1..Len(value) : value[i] = token

DigitVal(c) == (CHOOSE i \in 1..Len(Digits) : Chr(Digits, i) = c) - 1

RECURSIVE ParseNat(_)
ParseNat(s) ==
    IF Len(s) = 0 THEN 0
    ELSE ParseNat(SubSeq(s, 1, Len(s) - 1)) * 10 + DigitVal(Chr(s, Len(s)))

RECURSIVE NatToStr(_)
NatToStr(n) ==
    IF n < 10 THEN Chr(Digits, n + 1)
    ELSE NatToStr(n \div 10) \o Chr(Digits, (n % 10) + 1)

\* str(v) of a pydicom DS value read from a file: the element's own text
DSstr(original_string) == original_string

\* float(s) of a decimal string, in thousandths
float(s) ==
    LET dot == IF Contains(".", s)
               THEN CHOOSE i \in 1..Len(s) : Chr(s, i) = "."
               ELSE Len(s) + 1
        whole == SubSeq(s, 1, dot - 1)
        frac == SubSeq(SubSeq(s, dot + 1, Len(s)) \o "000", 1, 3)
    IN  ParseNat(whole) * 1000 + ParseNat(frac)

\* str(f) of a float: the shortest decimal, with at least one fraction digit
RECURSIVE TrimZeros(_)
TrimZeros(s) ==
    IF Len(s) > 1 /\ Chr(s, Len(s)) = "0"
    THEN TrimZeros(SubSeq(s, 1, Len(s) - 1))
    ELSE s

str(f) ==
    LET frac == NatToStr(1000 + (f % 1000))
    IN  NatToStr(f \div 1000) \o "." \o TrimZeros(SubSeq(frac, 2, 4))

-----------------------------------------------------------------------------
(* The classifier                                                          *)

NotGe == "ValueError: Not a GE header"
NotPhilips == "ValueError: Not a Philips header"
NotHitachi == "ValueError: Not a Hitachi header"
NotSiemens == "ValueError: Not a Siemens header"
NotToshiba == "ValueError: Not a Toshiba header"
NeitherMinNorMax == "ValueError: SAR value is neither min nor max"
AttributeError == "AttributeError"
MtDetectionFailed == "Exception: MT sequence detection failed"

VendorMismatch == {NotGe, NotPhilips, NotHitachi, NotSiemens, NotToshiba}

\* bool(x) as a classifier result
Bool(b) == IF b THEN "True" ELSE "False"

_is_mt_on_philips(dicom_header) ==
    IF ~Contains("philips", lower(dicom_header.Manufacturer)) THEN NotPhilips
    ELSE IF Len(dicom_header.PrivateMT) = 0 THEN AttributeError
    ELSE Bool(dicom_header.PrivateMT[1] > 0)

\* Variant of _is_mt_on_toshiba: the test of lines 23-27 left out.
_is_mt_on_toshiba_unchecked(dicom_header, min_sar, max_sar) ==
    IF ~Contains("toshiba", lower(dicom_header.Manufacturer)) THEN NotToshiba
    ELSE IF Len(dicom_header.SAR) = 0 THEN AttributeError
    ELSE Bool(DSstr(dicom_header.SAR[1]) = max_sar)

_is_mt_on_toshiba(dicom_header, min_sar, max_sar) ==
    IF ~Contains("toshiba", lower(dicom_header.Manufacturer)) THEN NotToshiba
    ELSE IF Len(dicom_header.SAR) = 0 THEN AttributeError
    ELSE LET sar_value == DSstr(dicom_header.SAR[1])
         IN  IF sar_value # min_sar /\ sar_value # max_sar
             THEN NeitherMinNorMax
             ELSE Bool(sar_value = max_sar)

_is_mt_on_siemens(dicom_header) ==
    IF ~Contains("siemens", lower(dicom_header.Manufacturer)) THEN NotSiemens
    ELSE Bool(PyIn("MT", dicom_header.ScanOptions))

_is_mt_on_hitachi(dicom_header) ==
    IF ~Contains("hitachi", lower(dicom_header.Manufacturer)) THEN NotHitachi
    ELSE Bool(PyIn("MTC", dicom_header.SequenceVariant))

_is_mt_on_ge(dicom_header) ==
    IF ~Contains("ge", lower(dicom_header.Manufacturer)) THEN NotGe
    ELSE Bool(PyIn("MT_GEMS", dicom_header.ScanOptions))

\* Variant of _is_mt_on: Siemens tried before GE.
_is_mt_on_siemens_first(dicom_header, min_sar, max_sar) ==
    LET manuf == lower(dicom_header.Manufacturer)
    IN  IF Contains("siemens", manuf) THEN _is_mt_on_siemens(dicom_header)
        ELSE IF Contains("ge", manuf) THEN _is_mt_on_ge(dicom_header)
        ELSE IF Contains("philips", manuf) THEN _is_mt_on_philips(dicom_header)
        ELSE IF Contains("hitachi", manuf) THEN _is_mt_on_hitachi(dicom_header)
        ELSE IF Contains("toshiba", manuf)
             THEN _is_mt_on_toshiba(dicom_header, min_sar, max_sar)
        ELSE "None"

_is_mt_on(dicom_header, min_sar, max_sar) ==
    LET manuf == lower(dicom_header.Manufacturer)
    IN  IF Contains("ge", manuf) THEN _is_mt_on_ge(dicom_header)
        ELSE IF Contains("philips", manuf) THEN _is_mt_on_philips(dicom_header)
        ELSE IF Contains("hitachi", manuf) THEN _is_mt_on_hitachi(dicom_header)
        ELSE IF Contains("siemens", manuf) THEN _is_mt_on_siemens(dicom_header)
        ELSE IF Contains("toshiba", manuf)
             THEN _is_mt_on_toshiba(dicom_header, min_sar, max_sar)
        ELSE "None"

-----------------------------------------------------------------------------
(* Paths and the external converter                                        *)

\* index of the last "/" of path, 0 when there is none
LastSlash(path) ==
    IF Contains("/", path)
    THEN CHOOSE i \in 1..Len(path) :
            /\ Chr(path, i) = "/"
            /\ \A j \in (i + 1)..Len(path) : Chr(path, j) # "/"
    ELSE 0

dirname(path) == SubSeq(path, 1, LastSlash(path) - 1)

basename(path) == SubSeq(path, LastSlash(path) + 1, Len(path))

\* compress, filename and dirname as lines 73-82 leave them; compress is
\* "unbound" when neither suffix matches
CmdOf(dicom_dir, nifti_filename) ==
    LET name == basename(nifti_filename)
        dir == IF dirname(nifti_filename) = "" THEN "." ELSE dirname(nifti_filename)
    IN  IF endswith(name, ".nii.gz")
        THEN [z |-> "p", o |-> dir, f |-> SubSeq(name, 1, Len(name) - 7), dir |-> dicom_dir]
        ELSE IF endswith(name, ".nii")
        THEN [z |-> "n", o |-> dir, f |-> SubSeq(name, 1, Len(name) - 4), dir |-> dicom_dir]
        ELSE [z |-> "unbound", o |-> dir, f |-> name, dir |-> dicom_dir]

\* the file dcm2niix writes for -z cmd.z -o cmd.o -f cmd.f
WrittenPath(cmd) ==
    (IF cmd.o = "." THEN "" ELSE cmd.o \o "/") \o cmd.f
        \o (IF cmd.z = "p" THEN ".nii.gz" ELSE ".nii")

\* Variant of HasWarning: the output not lower-cased.
HasWarningCased(dcm2niix_output) == Contains("warning", dcm2niix_output)

\* b'warning' in dcm2niix_output.lower()
HasWarning(dcm2niix_output) == Contains("warning", lower(dcm2niix_output))

\* What one run of dcm2niix may do: its exit status, its captured output and
\* whether it wrote its output file (it does when it exits with status 0).
Outcomes ==
    { [rc |-> 0, output |-> "Conversion required 0.2 seconds", wrote |-> TRUE],
      [rc |-> 0, output |-> "Warning: slices not stacked", wrote |-> TRUE],
      [rc |-> 0, output |-> "WARNING: check orientation", wrote |-> TRUE],
      [rc |-> 1, output |-> "Error: no DICOM images", wrote |-> FALSE],
      [rc |-> 1, output |-> "Error: unable to finish", wrote |-> TRUE] }

-----------------------------------------------------------------------------
(* The inputs of a job                                                     *)

Header(m, sar, so, sv, mt) ==
    [Manufacturer |-> m, SAR |-> sar, ScanOptions |-> so,
     SequenceVariant |-> sv, PrivateMT |-> mt]

\* The headers of the files a DICOM directory may hold.
JobHeaders ==
    { Header("TOSHIBA", <<"1.0">>, <<"">>, <<"SK">>, <<>>),
      Header("TOSHIBA", <<"2.0">>, <<"">>, <<"SK">>, <<>>),
      Header("Toshiba MEC", <<"1.50">>, <<"">>, <<"SK">>, <<>>),
      Header("GE MEDICAL SYSTEMS", <<"1.0">>, <<"FAST_GEMS", "MT_GEMS">>, <<"SK">>, <<>>),
      Header("Bruker", <<"1.0">>, <<"">>, <<"SK">>, <<>>),
      Header("Philips", <<>>, <<"">>, <<"SK">>, <<1>>) }

\* A DICOM directory: its files, each with the header dicom.read_file gives.
SrcDirs == UNION { [1..n -> JobHeaders] : n \in 0..MaxFiles }

DefaultMtonName == "mton.nii.gz"

DefaultMtoffName == "mtoff.nii.gz"

\* The output paths a caller may name or that may exist beforehand.
Paths == { DefaultMtonName, DefaultMtoffName, "out/t1.nii", "out/t1.img" }

\* dest of a paired job: (mton_name, mtoff_name)
MtDests ==
    { <<DefaultMtonName, DefaultMtoffName>>,
      <<"out/t1.nii", DefaultMtoffName>>,
      <<DefaultMtonName, DefaultMtonName>>,
      <<DefaultMtonName, "out/t1.img">> }

\* The source directories of the direct jobs (their content is not read).
DirectSrcs == { d \in SrcDirs : Len(d) = 0 }

PreExisting == [dir |-> "pre", z |-> "-"]

\* The files that may exist before a call: those an earlier conversion can
\* have written.
Leftovers == { p \in Paths : endswith(p, ".nii") \/ endswith(p, ".nii.gz") }

\* Variant of Sides: the MT-off side first.
SidesReversed == <<"mtoff", "mton">>

\* the two sides, in the order of lines 105 and 115: on, off
Sides == <<"mton", "mtoff">>

-----------------------------------------------------------------------------
(* The state                                                               *)

VARIABLES
    nifti,            \* the output files that exist: path -> who wrote it
    call,             \* the call under way: function and arguments
    job,              \* the callee dicom_to_nifti hands the call to
    pc,               \* position in the code
    sar,              \* <<min_sar, max_sar>>
    staging,          \* the two staging directories: side -> exists, files
    done_files,       \* number of records the partition loop has handled
    mt_found,         \* mt_found of line 105
    side,             \* position of the loop of line 115: 1 (on), 2 (off)
    dcm2niix_output,  \* the captured output of the last converter run
    error,            \* the exception the job ended with, "" when none
    cmds,             \* the converter runs of the job, in order
    before,           \* the output files that existed when the call began
    log,              \* the filesystem and converter steps of the job, in order
    cin,              \* a classifier call on its own: its inputs
    cout              \* a classifier call on its own: function and result

jobvars == <<nifti, call, job, pc, sar, staging, done_files, mt_found, side,
             dcm2niix_output, error, cmds, before, log>>

clsvars == <<cin, cout>>

vars == <<jobvars, clsvars>>

NoStaging == [s \in {"mton", "mtoff"} |-> [exists |-> FALSE, files |-> {}]]

NoCall == [fn |-> "none", src |-> <<>>, dest |-> <<>>, is_mtr |-> FALSE]

NoJob == [fn |-> "none", dicom_dir |-> <<>>, names |-> <<>>]

NoInput == [header |-> Header("", <<>>, <<>>, <<>>, <<>>),
            min_sar |-> "None", max_sar |-> "None"]

NoOutput == [fn |-> "none", result |-> "None"]

Init ==
    /\ nifti \in UNION { [P -> {PreExisting}] : P \in SUBSET Leftovers }
    /\ call = NoCall
    /\ job = NoJob
    /\ pc = "idle"
    /\ sar = <<"None", "None">>
    /\ staging = NoStaging
    /\ done_files = 0
    /\ mt_found = <<FALSE, FALSE>>
    /\ side = 1
    /\ dcm2niix_output = ""
    /\ error = ""
    /\ cmds = <<>>
    /\ before = nifti
    /\ log = <<>>
    /\ cin = NoInput
    /\ cout = NoOutput

-----------------------------------------------------------------------------
(* The operations                                                          *)

\* Variant of dicom_to_nifti: a paired job given the default output names.
dicom_to_nifti_defaults(src, dest, is_mtr) ==
    IF is_mtr
    THEN [fn |-> "dicom_to_nifti_mt", dicom_dir |-> src,
          names |-> <<DefaultMtonName, DefaultMtoffName>>]
    ELSE [fn |-> "_run_dcm2niix", dicom_dir |-> src, names |-> <<dest[1]>>]

\* dicom_to_nifti(src, dest, is_mtr): the callee and its arguments.  dest is
\* <<mton_name, mtoff_name>> for a paired job and <<nifti_filename>> otherwise.
dicom_to_nifti(src, dest, is_mtr) ==
    IF is_mtr
    THEN [fn |-> "dicom_to_nifti_mt", dicom_dir |-> src, names |-> <<dest[1], dest[2]>>]
    ELSE [fn |-> "_run_dcm2niix", dicom_dir |-> src, names |-> <<dest[1]>>]

FirstPc(j) == IF j.fn = "dicom_to_nifti_mt" THEN "prepare" ELSE "exists"

Start(c, j) ==
    /\ pc = "idle"
    /\ call' = c
    /\ job' = j
    /\ pc' = FirstPc(j)
    /\ before' = nifti
    /\ UNCHANGED <<nifti, sar, staging, done_files, mt_found, side,
                   dcm2niix_output, error, cmds, log, clsvars>>

\* a caller calls dicom_to_nifti(src, dest, is_mtr=True)
CallPaired ==
    /\ pc = "idle"
    /\ \E src \in SrcDirs, dest \in MtDests :
        Start([fn |-> "dicom_to_nifti", src |-> src, dest |-> dest, is_mtr |-> TRUE],
              dicom_to_nifti(src, dest, TRUE))

\* a caller calls dicom_to_nifti(src, dest) with is_mtr left False
CallDirect ==
    /\ pc = "idle"
    /\ \E src \in DirectSrcs, dest \in Paths :
        Start([fn |-> "dicom_to_nifti", src |-> src, dest |-> <<dest>>, is_mtr |-> FALSE],
              dicom_to_nifti(src, <<dest>>, FALSE))

\* dicom_to_nifti_mt(dicom_dir) with mton_name and mtoff_name left to their
\* defaults (line 96)
dicom_to_nifti_mt(dicom_dir) ==
    [fn |-> "dicom_to_nifti_mt", dicom_dir |-> dicom_dir,
     names |-> <<DefaultMtonName, DefaultMtoffName>>]

\* a caller calls dicom_to_nifti_mt(dicom_dir)
CallOrchestrator ==
    /\ pc = "idle"
    /\ \E src \in SrcDirs :
        Start([fn |-> "dicom_to_nifti_mt", src |-> src,
               dest |-> <<DefaultMtonName, DefaultMtoffName>>, is_mtr |-> TRUE],
              dicom_to_nifti_mt(src))

\* _sar_range(dicoms)
_sar_range(dicoms) ==
    IF \E k \in 1..Len(dicoms) : Len(dicoms[k].SAR) = 0
    THEN [err |-> AttributeError, range |-> <<"None", "None">>]
    ELSE IF Len(dicoms) = 0
    THEN [err |-> "ValueError: min() arg is an empty sequence",
          range |-> <<"None", "None">>]
    ELSE LET sars == { float(dicoms[k].SAR[1]) : k \in 1..Len(dicoms) }
             lo == CHOOSE v \in sars : \A w \in sars : v <= w
             hi == CHOOSE v \in sars : \A w \in sars : v >= w
         IN  [err |-> "", range |-> <<str(lo), str(hi)>>]

Fail(e) ==
    /\ pc' = "failed"
    /\ error' = e

\* dicom_to_nifti_mt, lines 98-104: read the headers, compute the SAR range,
\* create the two staging directories
Prepare ==
    /\ pc = "prepare"
    /\ LET r == _sar_range(job.dicom_dir)
       IN  IF r.err # ""
           THEN /\ Fail(r.err)
                /\ UNCHANGED <<sar, staging>>
           ELSE /\ sar' = r.range
                /\ staging' = [s \in {"mton", "mtoff"} |-> [exists |-> TRUE, files |-> {}]]
                /\ pc' = "partition"
                /\ UNCHANGED error
    /\ UNCHANGED <<nifti, call, job, done_files, mt_found, side,
                   dcm2niix_output, cmds, before, log, clsvars>>

\* Variant of Truthy: everything but False taken as true.
TruthyNotFalse(result) == result # "False"

\* the truth value line 107 tests
Truthy(result) == result = "True"

IsException(result) == result \notin {"True", "False", "None"}

\* dicom_to_nifti_mt, lines 106-112: one iteration of the partition loop
Partition ==
    /\ pc = "partition"
    /\ done_files < Len(job.dicom_dir)
    /\ LET k == done_files + 1
           result == _is_mt_on(job.dicom_dir[k], sar[1], sar[2])
           s == IF Truthy(result) THEN 1 ELSE 2
       IN  IF IsException(result)
           THEN /\ Fail(result)
                /\ UNCHANGED <<staging, done_files, mt_found>>
           ELSE /\ staging' = [staging EXCEPT ![Sides[s]].files = @ \cup {k}]
                /\ mt_found' = [mt_found EXCEPT ![s] = TRUE]
                /\ done_files' = k
                /\ UNCHANGED <<pc, error>>
    /\ UNCHANGED <<nifti, call, job, sar, side, dcm2niix_output, cmds, before, log, clsvars>>

\* Variant of Detect: the staging directories removed when detection fails.
DetectCleanup ==
    /\ pc = "partition"
    /\ done_files = Len(job.dicom_dir)
    /\ IF ~(mt_found[1] /\ mt_found[2])
       THEN /\ Fail(MtDetectionFailed)
            /\ staging' = [s \in DOMAIN staging |-> [exists |-> FALSE, files |-> {}]]
       ELSE /\ pc' = "exists"
            /\ UNCHANGED <<error, staging>>
    /\ UNCHANGED <<nifti, call, job, sar, done_files, mt_found, side,
                   dcm2niix_output, cmds, before, log, clsvars>>

\* dicom_to_nifti_mt, lines 113-114
Detect ==
    /\ pc = "partition"
    /\ done_files = Len(job.dicom_dir)
    /\ IF ~(mt_found[1] /\ mt_found[2])
       THEN Fail(MtDetectionFailed)
       ELSE /\ pc' = "exists"
            /\ UNCHANGED error
    /\ UNCHANGED <<nifti, call, job, sar, staging, done_files, mt_found, side,
                   dcm2niix_output, cmds, before, log, clsvars>>

\* the arguments of the call of _run_dcm2niix under way
CurDir == IF job.fn = "dicom_to_nifti_mt" THEN Sides[side] ELSE "src"

CurName == job.names[side]

\* Variant of Exists: the check of line 71 left out.
ExistsUnchecked ==
    /\ pc = "exists"
    /\ log' = Append(log, <<"exists", CurDir>>)
    /\ pc' = "run"
    /\ UNCHANGED <<nifti, call, job, sar, staging, done_files, mt_found, side,
                   dcm2niix_output, error, cmds, before, clsvars>>

\* _run_dcm2niix, lines 71-72
Exists ==
    /\ pc = "exists"
    /\ log' = Append(log, <<"exists", CurDir>>)
    /\ IF CurName \in DOMAIN nifti
       THEN Fail("FileExistsError")
       ELSE /\ pc' = "run"
            /\ UNCHANGED error
    /\ UNCHANGED <<nifti, call, job, sar, staging, done_files, mt_found, side,
                   dcm2niix_output, cmds, before, clsvars>>

\* _run_dcm2niix, lines 73-84: build the command and run dcm2niix
Run ==
    /\ pc = "run"
    /\ LET cmd == CmdOf(CurDir, CurName)
       IN  IF cmd.z = "unbound"
           THEN /\ Fail("UnboundLocalError")
                /\ UNCHANGED <<nifti, dcm2niix_output, cmds, log>>
           ELSE \E oc \in Outcomes :
                /\ cmds' = Append(cmds, cmd)
                /\ log' = Append(log, <<"dcm2niix", CurDir>>)
                /\ nifti' = IF oc.wrote
                            THEN [p \in DOMAIN nifti \cup {WrittenPath(cmd)} |->
                                    IF p = WrittenPath(cmd)
                                    THEN [dir |-> cmd.dir, z |-> cmd.z]
                                    ELSE nifti[p]]
                            ELSE nifti
                /\ IF oc.rc # 0
                   THEN /\ Fail("CalledProcessError")
                        /\ UNCHANGED dcm2niix_output
                   ELSE /\ dcm2niix_output' = oc.output
                        /\ pc' = "warning"
                        /\ UNCHANGED error
    /\ UNCHANGED <<call, job, sar, staging, done_files, mt_found, side, before,
                   clsvars>>

\* _run_dcm2niix, lines 85-87, and the return to the caller
Warning ==
    /\ pc = "warning"
    /\ IF HasWarning(dcm2niix_output)
       THEN /\ Fail("CalledProcessError")
            /\ UNCHANGED log
       ELSE /\ pc' = IF job.fn = "dicom_to_nifti_mt" THEN "rmtree" ELSE "done"
            /\ log' = Append(log, <<"return", CurDir>>)
            /\ UNCHANGED error
    /\ UNCHANGED <<nifti, call, job, sar, staging, done_files, mt_found, side,
                   dcm2niix_output, cmds, before, clsvars>>

\* Variant of Rmtree: line 117 left out.
RmtreeKept ==
    /\ pc = "rmtree"
    /\ log' = Append(log, <<"rmtree", Sides[side]>>)
    /\ IF side = 1
       THEN /\ side' = 2
            /\ pc' = "exists"
       ELSE /\ pc' = "done"
            /\ UNCHANGED side
    /\ UNCHANGED <<nifti, call, job, sar, staging, done_files, mt_found,
                   dcm2niix_output, error, cmds, before, clsvars>>

\* dicom_to_nifti_mt, line 117, and the next iteration of the loop of line 115
Rmtree ==
    /\ pc = "rmtree"
    /\ staging' = [staging EXCEPT ![Sides[side]] = [exists |-> FALSE, files |-> {}]]
    /\ log' = Append(log, <<"rmtree", Sides[side]>>)
    /\ IF side = 1
       THEN /\ side' = 2
            /\ pc' = "exists"
       ELSE /\ pc' = "done"
            /\ UNCHANGED side
    /\ UNCHANGED <<nifti, call, job, sar, done_files, mt_found,
                   dcm2niix_output, error, cmds, before, clsvars>>

Next ==
    \/ CallPaired
    \/ CallDirect
    \/ CallOrchestrator
    \/ Prepare
    \/ Partition
    \/ Detect
    \/ Exists
    \/ Run
    \/ Warning
    \/ Rmtree

Spec == Init /\ [][Next]_vars

-----------------------------------------------------------------------------
(* Calls of the classifier functions on their own                          *)

Manufacturers ==
    { "GE MEDICAL SYSTEMS", "Philips Medical Systems", "HITACHI", "SIEMENS",
      "TOSHIBA", "Toshiba MEC", "Bruker", "Siemens AG, Erlangen",
      "Philips/Hitachi" }

ClassifierHeaders ==
    { Header(m, sr, so, sv, mt) :
        m \in Manufacturers,
        sr \in { <<>>, <<"1.0">>, <<"1.50">>, <<"2.0">> },
        so \in { <<"">>, <<"MT">>, <<"MT_GEMS">>, <<"FAST_GEMS", "MT_GEMS">> },
        sv \in { <<"SK">>, <<"SK", "MTC">> },
        mt \in { <<>>, <<0>>, <<1>> } }

\* (min_sar, max_sar) as a caller may pass them
SarArgs ==
    { <<"None", "None">>, <<"1.0", "2.0">>, <<"1.0", "1.0">>, <<"1.0", "1.5">>,
      <<"2.0", "1.0">> }

ClassifierFns ==
    { "_is_mt_on", "_is_mt_on_ge", "_is_mt_on_philips", "_is_mt_on_hitachi",
      "_is_mt_on_siemens", "_is_mt_on_toshiba" }

ClassifierInit ==
    /\ nifti = <<>>
    /\ call = NoCall
    /\ job = NoJob
    /\ pc = "classify"
    /\ sar = <<"None", "None">>
    /\ staging = NoStaging
    /\ done_files = 0
    /\ mt_found = <<FALSE, FALSE>>
    /\ side = 1
    /\ dcm2niix_output = ""
    /\ error = ""
    /\ cmds = <<>>
    /\ before = <<>>
    /\ log = <<>>
    /\ cin \in { [header |-> h, min_sar |-> a[1], max_sar |-> a[2]] :
                    h \in ClassifierHeaders, a \in SarArgs }
    /\ cout = NoOutput

\* the result of the classifier function named fn on the inputs c
Apply(fn, c) ==
    CASE fn = "_is_mt_on" -> _is_mt_on(c.header, c.min_sar, c.max_sar)
      [] fn = "_is_mt_on_ge" -> _is_mt_on_ge(c.header)
      [] fn = "_is_mt_on_philips" -> _is_mt_on_philips(c.header)
      [] fn = "_is_mt_on_hitachi" -> _is_mt_on_hitachi(c.header)
      [] fn = "_is_mt_on_siemens" -> _is_mt_on_siemens(c.header)
      [] fn = "_is_mt_on_toshiba" -> _is_mt_on_toshiba(c.header, c.min_sar, c.max_sar)

Classify ==
    /\ pc = "classify"
    /\ \E fn \in ClassifierFns :
        cout' = [fn |-> fn, result |-> Apply(fn, cin)]
    /\ pc' = "returned"
    /\ UNCHANGED <<nifti, call, job, sar, staging, done_files, mt_found, side,
                   dcm2niix_output, error, cmds, before, log, cin>>

SpecClassifier == (Init \/ ClassifierInit) /\ [][Next \/ Classify]_vars

-----------------------------------------------------------------------------
(* Properties                                                              *)

Range(seq) == { seq[i] : i \in 1..Len(seq) }

Paired == job.fn = "dicom_to_nifti_mt"

Direct == job.fn = "_run_dcm2niix"

Terminated == pc \in {"done", "failed"}

\* the output files the job has created
Produced == { p \in DOMAIN nifti : p \notin DOMAIN before }

\* no file that existed when the call began has been removed or rewritten
NothingOverwritten ==
    \A p \in DOMAIN before : p \in DOMAIN nifti /\ nifti[p] = before[p]

\* C1, as stated: whenever any target output file of the call (the single
\* output, the MT-on output or the MT-off output) exists when the call begins,
\* the converter is never invoked, no existing file is overwritten and the
\* call ends in FileExistsError (here asked only of the calls that get as far
\* as an existence check).
C1_AnyTargetExists ==
    (job.fn # "none" /\ Range(job.names) \cap DOMAIN before # {}) =>
        /\ cmds = <<>>
        /\ NothingOverwritten
        /\ (Terminated /\ log # <<>>) => error = "FileExistsError"

\* C1, amended: a call whose target exists beforehand never completes and
\* never overwrites an existing file.  When the first target checked (the
\* single output, or the MT-on output) exists, the converter is never invoked
\* and a job that reaches its first existence check ends in FileExistsError.
\* When only the MT-off output of a paired job exists, the converter is
\* invoked at most once, on the MT-on staging directory, and a job that
\* reaches the MT-off side ends in FileExistsError.
C1_ExistenceChecks ==
    /\ NothingOverwritten
    /\ (job.fn # "none" /\ Range(job.names) \cap DOMAIN before # {}) =>
            pc # "done"
    /\ (job.fn # "none" /\ job.names[1] \in DOMAIN before) =>
            /\ cmds = <<>>
            /\ (pc = "failed" /\ (Direct \/ log # <<>>)) => error = "FileExistsError"
    /\ (Paired /\ job.names[1] \notin DOMAIN before /\ job.names[2] \in DOMAIN before) =>
            /\ Len(cmds) <= 1
            /\ \A i \in 1..Len(cmds) : cmds[i].dir = "mton"
            /\ (pc = "failed" /\ side = 2) => error = "FileExistsError"

\* C1 witness: a paired job whose MT-off output existed beforehand has run the
\* converter on the MT-on side and then failed on the MT-off existence check.
C1_Witness ==
    /\ Paired
    /\ job.names[2] \in DOMAIN before
    /\ Len(cmds) = 1
    /\ pc = "failed"
    /\ error = "FileExistsError"

\* every record of d classifies, with the SAR range of d, to one and the same
\* MT state (so that one of the two sides receives no file)
SameState(d) ==
    \/ Len(d) = 0
    \/ /\ _sar_range(d).err = ""
       /\ \E on \in BOOLEAN : \A k \in 1..Len(d) :
            LET result == _is_mt_on(d[k], _sar_range(d).range[1], _sar_range(d).range[2])
            IN  ~IsException(result) /\ Truthy(result) = on

\* C2, as stated: a paired job on a directory whose files all classify to the
\* same MT state, the empty directory included, ends with the MT detection
\* failure, never invokes the converter and produces no output file.
C2_DetectionFailure ==
    (Paired /\ Terminated /\ SameState(job.dicom_dir)) =>
        /\ error = MtDetectionFailed
        /\ cmds = <<>>
        /\ Produced = {}

\* C3: when a paired job completes, the files it has produced are exactly the
\* MT-on and the MT-off output, two distinct files, each converted from its
\* own staging directory, and neither staging directory is left.
C3_SuccessOutputs ==
    (Paired /\ pc = "done") =>
        /\ Produced = { job.names[1], job.names[2] }
        /\ Cardinality(Produced) = 2
        /\ nifti[job.names[1]].dir = "mton"
        /\ nifti[job.names[2]].dir = "mtoff"
        /\ \A s \in DOMAIN staging : ~staging[s].exists

\* C3 witness: a paired job over three files has completed.
C3_Witness ==
    /\ Paired
    /\ pc = "done"
    /\ Len(job.dicom_dir) = MaxFiles
    /\ Len(cmds) = 2

\* the vendor names, in the order the claims give for the dispatch
VendorOrder == <<"ge", "philips", "hitachi", "siemens", "toshiba">>

\* the vendors whose name the Manufacturer string holds, case ignored
Matches(header) ==
    LET manuf == lower(header.Manufacturer)
    IN  { i \in 1..Len(VendorOrder) : Contains(VendorOrder[i], manuf) }

FirstMatch(header) ==
    CHOOSE i \in Matches(header) : \A j \in Matches(header) : i <= j

\* the vendor rule the dispatcher hands the header to, "none" when no name
\* matches
RoutedTo(header) ==
    IF Matches(header) = {} THEN "none" ELSE VendorOrder[FirstMatch(header)]

\* C4: called on a record whose Manufacturer names Toshiba and that has a SAR
\* value, _is_mt_on_toshiba returns True iff the SAR string equals max_sar,
\* False iff it equals min_sar and not max_sar, and fails with the
\* neither-min-nor-max error iff it equals neither.  In a paired job, a
\* directory holding a record routed to the Toshiba rule whose SAR string is
\* neither of the two strings of the job's SAR range is rejected: the
\* converter is never invoked and the job does not get past the partition.
C4_ToshibaRule ==
    /\ (/\ cout.fn = "_is_mt_on_toshiba"
        /\ Contains("toshiba", lower(cin.header.Manufacturer))
        /\ Len(cin.header.SAR) = 1) =>
            LET v == cin.header.SAR[1]
            IN  /\ cout.result = "True" <=> v = cin.max_sar
                /\ cout.result = "False" <=> (v = cin.min_sar /\ v # cin.max_sar)
                /\ cout.result = NeitherMinNorMax <=> (v # cin.min_sar /\ v # cin.max_sar)
    /\ (/\ Paired
        /\ sar # <<"None", "None">>
        /\ \E k \in 1..Len(job.dicom_dir) :
              /\ RoutedTo(job.dicom_dir[k]) = "toshiba"
              /\ job.dicom_dir[k].SAR[1] \notin {sar[1], sar[2]}) =>
            /\ cmds = <<>>
            /\ pc \in {"partition", "failed"}
            /\ pc = "failed" => error = NeitherMinNorMax
            /\ done_files < Len(job.dicom_dir)

\* C4 witness: the Toshiba rule has rejected a record whose SAR text "1.50"
\* is neither "1.0" nor "1.5".
C4_Witness ==
    /\ cout.fn = "_is_mt_on_toshiba"
    /\ cin.header.Manufacturer = "Toshiba MEC"
    /\ cin.header.SAR = <<"1.50">>
    /\ cin.min_sar = "1.0"
    /\ cin.max_sar = "1.5"
    /\ cout.result = NeitherMinNorMax

\* C5: _is_mt_on returns what the rule of the first vendor, in the order GE,
\* Philips, Hitachi, Siemens, Toshiba, whose name the lower-cased Manufacturer
\* string holds returns on the same inputs, which is never a
\* wrong-vendor error; it returns None when no vendor name matches.  No job
\* ends with a wrong-vendor error.
C5_Dispatch ==
    /\ cout.fn = "_is_mt_on" =>
            IF Matches(cin.header) = {}
            THEN cout.result = "None"
            ELSE /\ cout.result = Apply("_is_mt_on_" \o RoutedTo(cin.header), cin)
                 /\ cout.result \notin VendorMismatch
    /\ error \notin VendorMismatch

\* C5 witness: on a Manufacturer string that holds two vendor names, "ge"
\* and "siemens", the dispatcher has returned the GE rule's False where the
\* Siemens rule returns True.
C5_Witness ==
    /\ cout.fn = "_is_mt_on"
    /\ Matches(cin.header) = {1, 4}
    /\ cout.result = "False"
    /\ _is_mt_on_siemens(cin.header) = "True"

\* C6, as stated: dicom_to_nifti for a paired job is the orchestrator with
\* the default output names, and any other call that completes has run the
\* converter once and produced one output file, a compressed .nii.gz.
C6_DefaultNamesCompressed ==
    /\ (call.fn = "dicom_to_nifti" /\ call.is_mtr) =>
            job = dicom_to_nifti_mt(call.src)
    /\ (call.fn = "dicom_to_nifti" /\ ~call.is_mtr /\ pc = "done") =>
            /\ Len(cmds) = 1
            /\ cmds[1].z = "p"
            /\ Cardinality(Produced) = 1
            /\ \A p \in Produced : endswith(p, ".nii.gz")

\* C6, amended: dicom_to_nifti(src, dest, is_mtr) with is_mtr true is the
\* orchestrator on src with mton_name = dest[0] and mtoff_name = dest[1], the
\* names the caller gives; with is_mtr false it is _run_dcm2niix(src, dest):
\* no staging directory is made, the converter is invoked at most once, on
\* src, and a call that completes has invoked it once and produced exactly
\* the file dest, compressed iff dest ends in .nii.gz and uncompressed iff it
\* ends in .nii.
C6_Dispatch ==
    /\ (call.fn = "dicom_to_nifti" /\ call.is_mtr) =>
            job = [fn |-> "dicom_to_nifti_mt", dicom_dir |-> call.src,
                   names |-> <<call.dest[1], call.dest[2]>>]
    /\ (call.fn = "dicom_to_nifti" /\ ~call.is_mtr) =>
            /\ job = [fn |-> "_run_dcm2niix", dicom_dir |-> call.src,
                      names |-> <<call.dest[1]>>]
            /\ staging = NoStaging
            /\ Len(cmds) <= 1
            /\ \A i \in 1..Len(cmds) : cmds[i].dir = "src"
            /\ pc = "done" =>
                  /\ Len(cmds) = 1
                  /\ Produced = { call.dest[1] }
                  /\ cmds[1].z = "p" <=> endswith(call.dest[1], ".nii.gz")
                  /\ cmds[1].z = "n" <=>
                        (~endswith(call.dest[1], ".nii.gz") /\ endswith(call.dest[1], ".nii"))

\* C6 witness: a direct call with dest "out/t1.nii" has completed with one
\* uncompressed conversion.
C6_Witness ==
    /\ call.fn = "dicom_to_nifti"
    /\ ~call.is_mtr
    /\ call.dest = <<"out/t1.nii">>
    /\ pc = "done"
    /\ Len(cmds) = 1
    /\ cmds[1].z = "n"

\* C7: when _run_dcm2niix inspects the output of a converter run that exited
\* with status 0, it fails with CalledProcessError if the output holds
\* "warning" in any letter case, and returns normally otherwise.
C7_WarningFails ==
    [][pc = "warning" =>
        IF Contains("warning", lower(dcm2niix_output))
        THEN pc' = "failed" /\ error' = "CalledProcessError"
        ELSE pc' \in {"rmtree", "done"} /\ error' = ""]_vars

\* C7 witness: a run that exited with status 0 and printed an upper-case
\* WARNING has made the job fail with CalledProcessError.
C7_Witness ==
    /\ dcm2niix_output = "WARNING: check orientation"
    /\ pc = "failed"
    /\ error = "CalledProcessError"

\* C8: while both staging directories of a paired job exist, the records
\* handled so far are each in exactly one of them, in the MT-on one iff the
\* classifier returns True for the record with the SAR range of the
\* directory and in the MT-off one iff it returns False or None; once the
\* loop is left without error every record has been handled; mt_found tells
\* which sides are not empty, and the source directory is as the caller gave
\* it.
C8_Partition ==
    (Paired /\ staging["mton"].exists /\ staging["mtoff"].exists) =>
        LET d == job.dicom_dir
            on == staging["mton"].files
            off == staging["mtoff"].files
        IN  /\ sar = _sar_range(d).range
            /\ on \cap off = {}
            /\ on \cup off = 1..done_files
            /\ \A k \in 1..done_files :
                  LET result == _is_mt_on(d[k], sar[1], sar[2])
                  IN  /\ k \in on <=> result = "True"
                      /\ k \in off <=> result \in {"False", "None"}
            /\ pc \notin {"partition", "failed"} => done_files = Len(d)
            /\ mt_found = <<on # {}, off # {}>>
            /\ d = call.src

\* C8 witness: the partition loop has finished with files on both sides, a
\* record of an unknown vendor among those of the MT-off side.
C8_Witness ==
    /\ Paired
    /\ pc = "exists"
    /\ side = 1
    /\ staging["mton"].files # {}
    /\ \E k \in staging["mtoff"].files :
          _is_mt_on(job.dicom_dir[k], sar[1], sar[2]) = "None"

\* the steps of the conversion loop of a paired job, in order
ConversionOrder ==
    << <<"exists", "mton">>, <<"dcm2niix", "mton">>, <<"return", "mton">>,
       <<"rmtree", "mton">>, <<"exists", "mtoff">>, <<"dcm2niix", "mtoff">>,
       <<"return", "mtoff">>, <<"rmtree", "mtoff">> >>

\* C9: the steps a paired job has taken are a prefix of: existence check,
\* converter run, return and staging removal for the MT-on side, then the
\* same for the MT-off side; each converter run is on its side's staging
\* directory and writes its side's output name; the MT-off existence check
\* is made only after the MT-on staging directory is removed.
C9_Order ==
    Paired =>
        /\ Len(log) <= Len(ConversionOrder)
        /\ log = SubSeq(ConversionOrder, 1, Len(log))
        /\ \A i \in 1..Len(cmds) :
              /\ cmds[i].dir = <<"mton", "mtoff">>[i]
              /\ WrittenPath(cmds[i]) = job.names[i]
        /\ <<"exists", "mtoff">> \in Range(log) => ~staging["mton"].exists

\* C9 witness: a paired job has taken all eight steps.
C9_Witness ==
    /\ Paired
    /\ log = ConversionOrder
    /\ pc = "done"

\* C10: in a paired job that has made its staging directories, a staging
\* directory is gone only if the converter run of its side returned normally;
\* a failed job has kept the staging directory of every side whose run did
\* not return normally, and when the MT-on side did not, the converter was
\* never run on the MT-off side and both directories are left.
C10_StagingKept ==
    (Paired /\ sar # <<"None", "None">>) =>
        /\ \A s \in DOMAIN staging :
              ~staging[s].exists => <<"return", s>> \in Range(log)
        /\ pc = "failed" =>
              /\ \A s \in DOMAIN staging :
                    <<"return", s>> \notin Range(log) => staging[s].exists
              /\ <<"return", "mton">> \notin Range(log) =>
                    /\ \A i \in 1..Len(cmds) : cmds[i].dir # "mtoff"
                    /\ staging["mton"].exists /\ staging["mtoff"].exists

\* C10 witness: the converter run of the MT-on side has failed and both
\* staging directories, with their files, are left.
C10_Witness ==
    /\ Paired
    /\ pc = "failed"
    /\ error = "CalledProcessError"
    /\ side = 1
    /\ staging["mton"].exists /\ staging["mton"].files # {}
    /\ staging["mtoff"].exists /\ staging["mtoff"].files # {}

====
